---- MODULE Spec2Model ----
(***************************************************************************)
(* The wasm VM's API service (vms/wasmvm/service.go): argument coercion    *)
(* (ArgAPI.toFnArg), request validation (InvokeArgs.validate) and the      *)
(* handlers Invoke, CreateContract, GetTx and CreateAccount, which share   *)
(* the VM's mempool.                                                       *)
(*                                                                         *)
(* Representation.                                                         *)
(*  - A Go string is a sequence of one-character strings, so that          *)
(*    strings.ToLower is computed rune by rune.                            *)
(*  - A Go int32 / int64 is its two's-complement bit pattern, as 2 / 4     *)
(*    little-endian limbs of 16 bits each (a limb is in 0 .. 2^16-1).      *)
(*  - A Go float32 / float64 is sign, mantissa and binary exponent: the    *)
(*    value (-1)^neg * mant * 2^exp, or NaN / an infinity.                 *)
(***************************************************************************)
EXTENDS Integers, Sequences, FiniteSets, TLC

VARIABLES
    \* --- the VM, shared by every call
    mempool,    \* vm.mempool: the sequence of pending transactions
    notified,   \* how many times vm.NotifyBlockReady() has been called
    db,         \* vm.DB: the identifiers of the stored transactions
    \* --- one RPC call per caller p at a time (the handler's frame)
    pc,         \* pc[p]: where caller p's handler stands ("idle": no call)
    op,         \* op[p]: the handler running
    args,       \* args[p]: the request
    response,   \* response[p]: the response object the handler was given
    err,        \* err[p]: the error the handler returned (NoErr: nil)
    i,          \* i[p]: Invoke's loop index over args.Args (0-based)
    fnArgs,     \* fnArgs[p]: Invoke's converted arguments
    privateKey, \* privateKey[p]: the parsed signing key
    tx,         \* tx[p]: the transaction built
    slice,      \* slice[p]: the value of vm.mempool read by append
    \* --- bookkeeping of the run
    trace,      \* trace[p]: the steps caller p's current call has taken
    built,      \* built[p]: what the call handed to the transaction builder
    ncalls,     \* calls started so far
    succeeded,  \* Invoke / CreateContract calls that returned nil so far
    entry,      \* entry[p]: vm.mempool as it was when caller p's call started
    \* --- toFnArg on its own (SpecCoerce)
    arg,        \* toFnArg's receiver: the ArgAPI being converted
    ret         \* what toFnArg returned for it: [val, err], or NotCalled

cvars == <<arg, ret>>
vmvars == <<mempool, notified, db>>
callvars == <<pc, op, args, response, err, i, fnArgs, privateKey, tx, slice, trace, built, entry>>
svars == <<vmvars, callvars, ncalls, succeeded>>
vars == <<svars, cvars>>

(***************************************************************************)
(* Strings                                                                 *)
(***************************************************************************)
UpperRunes == <<"A","B","C","D","E","F","G","H","I","J","K","L","M",
                "N","O","P","Q","R","S","T","U","V","W","X","Y","Z">>
LowerRunes == <<"a","b","c","d","e","f","g","h","i","j","k","l","m",
                "n","o","p","q","r","s","t","u","v","w","x","y","z">>

\* unicode.ToLower on one (ASCII) rune
toLowerRuneKeepsCase(c) == c
toLowerRune(c) ==
    IF \E k \in DOMAIN UpperRunes : UpperRunes[k] = c
    THEN LowerRunes[CHOOSE k \in DOMAIN UpperRunes : UpperRunes[k] = c]
    ELSE c

\* strings.ToLower
ToLower(s) == [k \in 1..Len(s) |-> toLowerRune(s[k])]

int32Tag == <<"i","n","t","3","2">>
int64Tag == <<"i","n","t","6","4">>

(***************************************************************************)
(* Fixed-width integers as limbs                                           *)
(***************************************************************************)
LimbBase == 2^16     \* a limb holds 16 bits
SignLimb == 2^15     \* a top limb >= SignLimb: the sign bit is set

Zeros(n) == [k \in 1..n |-> 0]

\* two's-complement negation of a limb sequence (same width)
RECURSIVE AddOne(_)
AddOne(l) ==
    IF l = <<>> THEN <<>>
    ELSE IF Head(l) + 1 < LimbBase THEN <<Head(l) + 1>> \o Tail(l)
         ELSE <<0>> \o AddOne(Tail(l))
Complement(l) == [k \in 1..Len(l) |-> LimbBase - 1 - l[k]]
Negate(l) == AddOne(Complement(l))

IsNegative(l) == l[Len(l)] >= SignLimb

\* int32(v) for an int64 v: the low 32 bits
NarrowTo32Clamps(l) ==
    IF l[4] >= SignLimb
    THEN IF l[4] = LimbBase - 1 /\ l[3] = LimbBase - 1 /\ l[2] >= SignLimb
         THEN SubSeq(l, 1, 2) ELSE <<0, SignLimb>>
    ELSE IF l[4] = 0 /\ l[3] = 0 /\ l[2] < SignLimb
         THEN SubSeq(l, 1, 2) ELSE <<LimbBase - 1, SignLimb - 1>>
NarrowTo32(l) == SubSeq(l, 1, 2)

\* int64(v) for an int32 v: sign extension
WidenTo64(l) ==
    l \o (IF IsNegative(l) THEN <<LimbBase - 1, LimbBase - 1>> ELSE <<0, 0>>)

(***************************************************************************)
(* Wire values: what the decoded request holds in an interface{}           *)
(***************************************************************************)
NoBits == <<>>

I32(bits) == [kind |-> "int32", bits |-> bits, neg |-> FALSE, mant |-> 0, exp |-> 0, text |-> ""]
I64(bits) == [kind |-> "int64", bits |-> bits, neg |-> FALSE, mant |-> 0, exp |-> 0, text |-> ""]
F32(neg, mant, exp) == [kind |-> "float32", bits |-> NoBits, neg |-> neg, mant |-> mant, exp |-> exp, text |-> ""]
F64(neg, mant, exp) == [kind |-> "float64", bits |-> NoBits, neg |-> neg, mant |-> mant, exp |-> exp, text |-> ""]
\* NaN and the infinities: text names which
F32Special(neg, t) == [kind |-> "float32", bits |-> NoBits, neg |-> neg, mant |-> 0, exp |-> 0, text |-> t]
F64Special(neg, t) == [kind |-> "float64", bits |-> NoBits, neg |-> neg, mant |-> 0, exp |-> 0, text |-> t]
Str(t)    == [kind |-> "string", bits |-> NoBits, neg |-> FALSE, mant |-> 0, exp |-> 0, text |-> t]
Bool(b)   == [kind |-> "bool", bits |-> NoBits, neg |-> FALSE, mant |-> 0, exp |-> 0,
              text |-> IF b THEN "true" ELSE "false"]
NilValue  == [kind |-> "nil", bits |-> NoBits, neg |-> FALSE, mant |-> 0, exp |-> 0, text |-> ""]

IsFloat(v) == v.kind \in {"float32", "float64"}
IsFinite(v) == v.text = ""

(***************************************************************************)
(* Float to integer conversion: int32(f), int64(f)                         *)
(***************************************************************************)
MagLimbs == 6   \* limbs of a truncated magnitude: room for mant * 2^exp

\* l * m + carry, limb by limb (m < LimbBase), truncated to Len(l) limbs
RECURSIVE MulCarry(_, _, _)
MulCarry(l, m, carry) ==
    IF l = <<>> THEN <<>>
    ELSE LET p == Head(l) * m + carry
         IN  <<p % LimbBase>> \o MulCarry(Tail(l), m, p \div LimbBase)

\* l * 2^e
ShiftLeft(l, e) ==
    LET whole == e \div 16
        part  == MulCarry(l, 2^(e % 16), 0)
    IN  IF whole >= Len(l) THEN Zeros(Len(l))
        ELSE Zeros(whole) \o SubSeq(part, 1, Len(l) - whole)

\* |f| rounded to the nearest integer, halves away from zero
TruncMagRounds(f) ==
    IF f.exp < 0
    THEN LET m == (f.mant + 2^(0 - f.exp - 1)) \div (2^(0 - f.exp))
         IN  <<m % LimbBase, m \div LimbBase>> \o Zeros(MagLimbs - 2)
    ELSE ShiftLeft(<<f.mant % LimbBase, f.mant \div LimbBase>> \o Zeros(MagLimbs - 2), f.exp)

\* the integer part of |f|, as an unsigned magnitude of MagLimbs limbs
TruncMag(f) ==
    IF f.exp < 0
    THEN LET m == f.mant \div (2^(0 - f.exp))
         IN  <<m % LimbBase, m \div LimbBase>> \o Zeros(MagLimbs - 2)
    ELSE ShiftLeft(<<f.mant % LimbBase, f.mant \div LimbBase>> \o Zeros(MagLimbs - 2), f.exp)

\* whether the truncation of f is a value of the signed integer type of n limbs
Representable(f, n) ==
    LET mag == TruncMag(f)
        low == SubSeq(mag, 1, n)
    IN  /\ IsFinite(f)
        /\ \A k \in (n + 1)..MagLimbs : mag[k] = 0
        /\ \/ low[n] < SignLimb
           \/ f.neg /\ low = Zeros(n - 1) \o <<SignLimb>>

\* the truncation of f toward zero, as an integer of n limbs (when representable)
TruncTo(f, n) ==
    LET low == SubSeq(TruncMag(f), 1, n)
    IN  IF f.neg THEN Negate(low) ELSE low

(***************************************************************************)
(* Formatted text.  A Go string built by fmt is a sequence of fragments:   *)
(* a literal piece of the format string, the runes of a string operand,    *)
(* or the rendering of a value under the verb %v.  A rendered number is    *)
(* kept as the number its digits denote, so two values render alike        *)
(* exactly when their texts are equal (no sampled string is a numeral).    *)
(***************************************************************************)
Frag(text, runes, neg, num, frac) ==
    [text |-> text, runes |-> runes, neg |-> neg, num |-> num, frac |-> frac]
Lit(text)   == Frag(text, <<>>, FALSE, <<>>, <<>>)
Runes(s)    == Frag("", s, FALSE, <<>>, <<>>)

\* the magnitude of a signed integer, widened to MagLimbs limbs
IntMag(l) ==
    (IF IsNegative(l) THEN Negate(l) ELSE l) \o Zeros(MagLimbs - Len(l))

\* mant * 2^exp with the factors of two moved out of mant (exp < 0)
RECURSIVE Reduce(_, _)
Reduce(mant, exp) ==
    IF exp < 0 /\ mant % 2 = 0 /\ mant # 0 THEN Reduce(mant \div 2, exp + 1)
    ELSE <<mant, exp>>

\* fmt's %v of an interface{} value
FormatV(v) ==
    CASE v.kind \in {"int32", "int64"} ->
            Frag("", <<>>, IsNegative(v.bits), IntMag(v.bits), <<>>)
      [] IsFloat(v) /\ ~IsFinite(v) ->
            Frag(v.text, <<>>, v.neg, <<>>, <<>>)
      [] IsFloat(v) /\ IsFinite(v) ->
            LET r == Reduce(v.mant, v.exp)
            IN  IF r[2] >= 0 \/ r[1] = 0
                THEN Frag("", <<>>, v.neg, TruncMag(v), <<>>)
                ELSE Frag("", <<>>, v.neg, <<>>, r)
      [] v.kind = "nil" -> Lit("<nil>")
      [] OTHER -> Lit(v.text)

\* fmt's %+v of an ArgAPI: {Type:<type> Value:<value>}
FormatArg(a) ==
    <<Lit("{Type:"), Runes(a.Type), Lit(" Value:"), FormatV(a.Value), Lit("}")>>

\* a Go error is its message; nil is the empty message
NoErr == <<>>

(***************************************************************************)
(* ArgAPI.toFnArg                                                          *)
(***************************************************************************)
ArgAPI(type, value) == [Type |-> type, Value |-> value]

LimbSamples == {0, 5, SignLimb - 1, SignLimb, LimbBase - 1}
Int32Bits == [1..2 -> LimbSamples]
Int64Bits == [1..4 -> LimbSamples]

\* Go leaves int32(f) / int64(f) to the implementation when the truncated
\* value is not representable (too large, NaN, an infinity): any value of
\* the target type may come out.  Sampled: zero, -1, the least and the
\* greatest value of the type.
Unspecified(n) ==
    { Zeros(n), [k \in 1..n |-> LimbBase - 1],
      Zeros(n - 1) \o <<SignLimb>>,
      [k \in 1..n |-> IF k = n THEN SignLimb - 1 ELSE LimbBase - 1] }

FloatToInt32(f) ==
    IF Representable(f, 2) THEN {I32(TruncTo(f, 2))} ELSE {I32(b) : b \in Unspecified(2)}
FloatToInt64(f) ==
    IF Representable(f, 4) THEN {I64(TruncTo(f, 4))} ELSE {I64(b) : b \in Unspecified(4)}

Returns(v, e) == [val |-> v, err |-> e]

\* fmt.Errorf("value '%v' is not convertible to int32", arg.Value), and to int64
notConvertibleDropsValue(v, target) ==
    <<Lit("value '"), Lit(""), Lit(target)>>
notConvertible(v, target) ==
    <<Lit("value '"), FormatV(v), Lit(target)>>

\* errors.New("arg type must be one of: int32, int64")
unsupportedType == <<Lit("arg type must be one of: int32, int64")>>

\* the set of results toFnArg may return for a (a singleton, except where
\* the float conversion is implementation-defined)
toFnArg(a) ==
    LET v == a.Value
        t == ToLower(a.Type)
    IN  CASE t = int32Tag ->
               CASE v.kind = "int32"   -> {Returns(v, NoErr)}
                 [] v.kind = "int64"   -> {Returns(I32(NarrowTo32(v.bits)), NoErr)}
                 [] v.kind = "float32" -> {Returns(r, NoErr) : r \in FloatToInt32(v)}
                 [] v.kind = "float64" -> {Returns(r, NoErr) : r \in FloatToInt32(v)}
                 [] OTHER -> {Returns(NilValue, notConvertible(v, "' is not convertible to int32"))}
          [] t = int64Tag ->
               CASE v.kind = "int32"   -> {Returns(I64(WidenTo64(v.bits)), NoErr)}
                 [] v.kind = "int64"   -> {Returns(v, NoErr)}
                 [] v.kind = "float32" -> {Returns(r, NoErr) : r \in FloatToInt64(v)}
                 [] v.kind = "float64" -> {Returns(r, NoErr) : r \in FloatToInt64(v)}
                 [] OTHER -> {Returns(NilValue, notConvertible(v, "' is not convertible to int64"))}
          [] OTHER -> {Returns(NilValue, unsupportedType)}

(***************************************************************************)
(* Inputs of the conversion                                                *)
(***************************************************************************)
\* the upper-case rune of a lower-case one, and every other rune itself
toUpperRune(c) ==
    IF \E k \in DOMAIN LowerRunes : LowerRunes[k] = c
    THEN UpperRunes[CHOOSE k \in DOMAIN LowerRunes : LowerRunes[k] = c]
    ELSE c

\* the spellings of s in every mix of upper and lower case
RECURSIVE CaseVariants(_)
CaseVariants(s) ==
    IF s = <<>> THEN {<<>>}
    ELSE {<<c>> \o r : c \in {Head(s), toUpperRune(Head(s))}, r \in CaseVariants(Tail(s))}

OtherTags ==
    { <<>>, <<"i","n","t">>, <<"i","n","t","3">>, <<"i","n","t","1","6">>,
      <<"i","n","t","3","2"," ">>, <<" ","i","n","t","3","2">>,
      <<"i","n","t","3","2","6","4">>, <<"i","n","t","2","3">>,
      <<"u","i","n","t","3","2">>, <<"I","N","T">>, <<"1","n","t","3","2">>,
      <<"s","t","r","i","n","g">>, <<"f","l","o","a","t","6","4">>,
      <<"b","o","o","l">>, <<"I","6","4">> }

TypeTags == CaseVariants(int32Tag) \cup CaseVariants(int64Tag) \cup OtherTags

FloatMants == {0, 1, 3, 5, 31}
FloatExps  == {-3, -1, 0, 1, 30, 31, 62, 63, 64}
FloatSpecials == {"NaN", "Inf"}

WireValues ==
    {I32(b) : b \in Int32Bits} \cup {I64(b) : b \in Int64Bits}
    \cup {F32(n, m, e) : n \in BOOLEAN, m \in FloatMants, e \in FloatExps}
    \cup {F64(n, m, e) : n \in BOOLEAN, m \in FloatMants, e \in FloatExps}
    \cup {F32Special(n, t) : n \in BOOLEAN, t \in FloatSpecials}
    \cup {F64Special(n, t) : n \in BOOLEAN, t \in FloatSpecials}
    \cup {Str("bad"), Str("x"), Str(""), Str("true"), Bool(TRUE), Bool(FALSE), NilValue}

NotCalled == [val |-> NilValue, err |-> <<Lit("not called")>>]

(***************************************************************************)
(* The service: callers, identifiers, keys and the external capabilities   *)
(***************************************************************************)
NumProcs == 2   \* concurrent callers
MaxCalls == 2   \* calls started in one run
MaxArgs  == 2   \* length of args.Args

Procs == 1..NumProcs

\* ids.ID, shortened to two bytes; ids.Empty is the all-zero identifier
EmptyID == <<0, 0>>
ContractIDs == {EmptyID, <<0, 1>>}
TxIDs == {<<1, 0>>, <<1, 1>>}

Functions == {"", "f"}
KeyBytes == {"key-1", "malformed"}
WellFormedKeys == {"key-1"}

\* keyFactory.ToPrivateKey: the parsed key, or an error for malformed bytes
ToPrivateKey(bytes) ==
    IF bytes \in WellFormedKeys
    THEN [key |-> bytes, err |-> NoErr]
    ELSE [key |-> "", err |-> <<Lit("invalid private key bytes")>>]

\* a transaction: its identifier (tx.ID()) and the object's identity
Tx(id, obj) == [id |-> id, obj |-> obj]
NoTx == Tx(EmptyID, 0)

\* what vm.newInvokeTx / vm.newCreateContractTx may return: a transaction
\* with some identifier among ids, or an error; obj names the new object
BuildOutcomes(obj, ids) ==
    {[tx |-> Tx(id, obj), err |-> NoErr] : id \in ids}
    \cup {[tx |-> NoTx, err |-> <<Lit("tx could not be built")>>]}

\* vm.getTx(vm.DB, id): the stored record of id (kept as <<id>>), or an
\* error when the store holds none
getTx(store, id) ==
    IF id \in store
    THEN [tx |-> <<id>>, err |-> NoErr]
    ELSE [tx |-> <<>>, err |-> <<Lit("tx not in store")>>]

\* what keyFactory.NewPrivateKey may return
NewKeyOutcomes ==
    {[key |-> "key-1", err |-> NoErr], [key |-> "", err |-> <<Lit("no entropy")>>]}

\* the response objects, as one record: InvokeResponse.TxID and
\* CreateContract's *ids.ID, GetTxResponse.Tx, CreateAccountResponse.Key
Resp(txid, stored, key) == [TxID |-> txid, Tx |-> stored, Key |-> key]
NoStored == <<>>
ZeroResp == Resp(EmptyID, NoStored, "")

\* InvokeArgs and CreateContractArgs, GetTxArgs
InvokeArgs(c, f, k, a, b) ==
    [ContractID |-> c, Function |-> f, PrivateKey |-> k, Args |-> a, ByteArgs |-> b,
     Contract |-> "", ID |-> EmptyID]
CreateContractArgs(c, k) ==
    [ContractID |-> EmptyID, Function |-> "", PrivateKey |-> k, Args |-> <<>>, ByteArgs |-> "",
     Contract |-> c, ID |-> EmptyID]
GetTxArgs(id) ==
    [ContractID |-> EmptyID, Function |-> "", PrivateKey |-> "", Args |-> <<>>, ByteArgs |-> "",
     Contract |-> "", ID |-> id]
NoArgs == GetTxArgs(EmptyID)

NothingBuilt == <<>>

SeqsUpTo(S, n) == UNION {[1..k -> S] : k \in 0..n}

(***************************************************************************)
(* InvokeArgs.validate                                                     *)
(***************************************************************************)
validateSkipsFunction(a) ==
    IF a.ContractID = EmptyID THEN <<Lit("contractID not specified")>>
    ELSE NoErr
validate(a) ==
    IF a.ContractID = EmptyID THEN <<Lit("contractID not specified")>>
    ELSE IF a.Function = "" THEN <<Lit("function not specified")>>
    ELSE NoErr

(***************************************************************************)
(* The handlers, step by step                                              *)
(***************************************************************************)
ServiceInit ==
    /\ mempool = <<>>
    /\ notified = 0
    /\ db = {<<1, 0>>}
    /\ pc = [p \in Procs |-> "idle"]
    /\ op = [p \in Procs |-> ""]
    /\ args = [p \in Procs |-> NoArgs]
    /\ response = [p \in Procs |-> ZeroResp]
    /\ err = [p \in Procs |-> NoErr]
    /\ i = [p \in Procs |-> 0]
    /\ fnArgs = [p \in Procs |-> <<>>]
    /\ privateKey = [p \in Procs |-> ""]
    /\ tx = [p \in Procs |-> NoTx]
    /\ slice = [p \in Procs |-> <<>>]
    /\ trace = [p \in Procs |-> <<>>]
    /\ built = [p \in Procs |-> NothingBuilt]
    /\ ncalls = 0
    /\ succeeded = 0
    /\ entry = [p \in Procs |-> <<>>]

\* the handler of caller p is entered with request a and response object r
Enter(p, name, a, r, first) ==
    /\ pc[p] = "idle"
    /\ ncalls < MaxCalls
    /\ ncalls' = ncalls + 1
    /\ pc' = [pc EXCEPT ![p] = first]
    /\ op' = [op EXCEPT ![p] = name]
    /\ args' = [args EXCEPT ![p] = a]
    /\ response' = [response EXCEPT ![p] = r]
    /\ trace' = [trace EXCEPT ![p] = <<>>]
    /\ entry' = [entry EXCEPT ![p] = mempool]
    /\ UNCHANGED <<vmvars, err, i, fnArgs, privateKey, tx, slice, built, succeeded, cvars>>

\* return e from the handler of caller p, after step name
ReturnErr(p, name, e) ==
    /\ pc' = [pc EXCEPT ![p] = "returned"]
    /\ err' = [err EXCEPT ![p] = e]
    /\ trace' = [trace EXCEPT ![p] = Append(@, name)]

\* go on to the step at label next, after step name
Goto(p, name, next) ==
    /\ pc' = [pc EXCEPT ![p] = next]
    /\ trace' = [trace EXCEPT ![p] = Append(@, name)]
    /\ UNCHANGED err

\* Invoke without its validation step
InvokeCallSkipsValidation(p, a, r) == Enter(p, "Invoke", a, r, "parseKey")
\* func (s *Service) Invoke: entry
InvokeCall(p, a, r) == Enter(p, "Invoke", a, r, "validate")

\* if err := args.validate(); err != nil { return ... }
\* fnArgs := make([]interface{}, len(args.Args))
InvokeValidate(p) ==
    /\ pc[p] = "validate"
    /\ LET e == validate(args[p])
       IN  IF e # NoErr
           THEN /\ ReturnErr(p, "validate", <<Lit("arguments failed validation: ")>> \o e)
                /\ UNCHANGED <<fnArgs, i>>
           ELSE /\ Goto(p, "validate", IF Len(args[p].Args) = 0 THEN "parseKey" ELSE "coerce")
                /\ fnArgs' = [fnArgs EXCEPT ![p] = [k \in 1..Len(args[p].Args) |-> NilValue]]
                /\ i' = [i EXCEPT ![p] = 0]
    /\ UNCHANGED <<vmvars, entry, op, args, response, privateKey, tx, slice, built, ncalls, succeeded, cvars>>

\* a loop that appends to the slice it has already made len(args.Args) long
InvokeCoerceAppends(p) ==
    /\ pc[p] = "coerce"
    /\ LET a == args[p].Args[i[p] + 1]
       IN  \E r \in toFnArg(a) :
             /\ fnArgs' = [fnArgs EXCEPT ![p] = Append(@, r.val)]
             /\ IF r.err # NoErr
                THEN /\ ReturnErr(p, "toFnArg",
                            <<Lit("couldn't parse arg '")>> \o FormatArg(a) \o <<Lit("': ")>> \o r.err)
                     /\ UNCHANGED i
                ELSE /\ Goto(p, "toFnArg",
                            IF i[p] + 1 < Len(args[p].Args) THEN "coerce" ELSE "parseKey")
                     /\ i' = [i EXCEPT ![p] = @ + 1]
    /\ UNCHANGED <<vmvars, entry, op, args, response, privateKey, tx, slice, built, ncalls, succeeded, cvars>>

\* one iteration of: for i, arg := range args.Args { fnArgs[i], err = arg.toFnArg() ... }
InvokeCoerce(p) ==
    /\ pc[p] = "coerce"
    /\ LET a == args[p].Args[i[p] + 1]
       IN  \E r \in toFnArg(a) :
             /\ fnArgs' = [fnArgs EXCEPT ![p][i[p] + 1] = r.val]
             /\ IF r.err # NoErr
                THEN /\ ReturnErr(p, "toFnArg",
                            <<Lit("couldn't parse arg '")>> \o FormatArg(a) \o <<Lit("': ")>> \o r.err)
                     /\ UNCHANGED i
                ELSE /\ Goto(p, "toFnArg",
                            IF i[p] + 1 < Len(args[p].Args) THEN "coerce" ELSE "parseKey")
                     /\ i' = [i EXCEPT ![p] = @ + 1]
    /\ UNCHANGED <<vmvars, entry, op, args, response, privateKey, tx, slice, built, ncalls, succeeded, cvars>>

\* a key parsing that clears the response object when it fails
ParseKeyClearsResponse(p, next) ==
    /\ pc[p] = "parseKey"
    /\ LET k == ToPrivateKey(args[p].PrivateKey)
       IN  IF k.err # NoErr
           THEN /\ ReturnErr(p, "ToPrivateKey",
                        <<Lit("couldn't parse 'privateKey' to a SECP256K1R private key: ")>> \o k.err)
                /\ response' = [response EXCEPT ![p] = ZeroResp]
                /\ UNCHANGED privateKey
           ELSE /\ Goto(p, "ToPrivateKey", next)
                /\ privateKey' = [privateKey EXCEPT ![p] = k.key]
                /\ UNCHANGED response
    /\ UNCHANGED <<vmvars, entry, op, args, i, fnArgs, tx, slice, built, ncalls, succeeded, cvars>>

\* a key parsing whose error is not looked at
ParseKeyIgnoresError(p, next) ==
    /\ pc[p] = "parseKey"
    /\ Goto(p, "ToPrivateKey", next)
    /\ privateKey' = [privateKey EXCEPT ![p] = ToPrivateKey(args[p].PrivateKey).key]
    /\ UNCHANGED <<vmvars, entry, op, args, response, i, fnArgs, tx, slice, built, ncalls, succeeded, cvars>>

\* privateKey, err := keyFactory.ToPrivateKey(args.PrivateKey.Bytes)
ParseKey(p, next) ==
    /\ pc[p] = "parseKey"
    /\ LET k == ToPrivateKey(args[p].PrivateKey)
       IN  IF k.err # NoErr
           THEN /\ ReturnErr(p, "ToPrivateKey",
                        <<Lit("couldn't parse 'privateKey' to a SECP256K1R private key: ")>> \o k.err)
                /\ UNCHANGED privateKey
           ELSE /\ Goto(p, "ToPrivateKey", next)
                /\ privateKey' = [privateKey EXCEPT ![p] = k.key]
    /\ UNCHANGED <<vmvars, entry, op, args, response, i, fnArgs, tx, slice, built, ncalls, succeeded, cvars>>

InvokeParseKey(p) == op[p] = "Invoke" /\ ParseKey(p, "build")

\* a builder step that puts what it got in the pool before looking at err
BuildAppendsBeforeCheck(p, name, input, ids) ==
    /\ pc[p] = "build"
    /\ built' = [built EXCEPT ![p] = input]
    /\ \E out \in BuildOutcomes(ncalls, ids) :
         IF out.err # NoErr
         THEN /\ ReturnErr(p, name, <<Lit("couldn't create tx: ")>> \o out.err)
              /\ mempool' = Append(mempool, out.tx)
              /\ UNCHANGED tx
         ELSE /\ Goto(p, name, "append")
              /\ tx' = [tx EXCEPT ![p] = out.tx]
              /\ UNCHANGED mempool
    /\ UNCHANGED <<notified, db, entry, op, args, response, i, fnArgs, privateKey, slice, ncalls,
                   succeeded, cvars>>

\* a builder step that tries once more after a first failure
BuildRetriesOnce(p, name, input, ids) ==
    /\ pc[p] = "build"
    /\ built' = [built EXCEPT ![p] = input]
    /\ \E out \in BuildOutcomes(ncalls, ids) :
         IF out.err # NoErr
         THEN /\ IF name \in {trace[p][k] : k \in 1..Len(trace[p])}
                 THEN ReturnErr(p, name, <<Lit("couldn't create tx: ")>> \o out.err)
                 ELSE Goto(p, name, "build")
              /\ UNCHANGED tx
         ELSE /\ Goto(p, name, "append")
              /\ tx' = [tx EXCEPT ![p] = out.tx]
    /\ UNCHANGED <<vmvars, entry, op, args, response, i, fnArgs, privateKey, slice, ncalls, succeeded, cvars>>

\* tx, err := s.vm.newInvokeTx(...) / s.vm.newCreateContractTx(...), given input
Build(p, name, input, ids) ==
    /\ pc[p] = "build"
    /\ built' = [built EXCEPT ![p] = input]
    /\ \E out \in BuildOutcomes(ncalls, ids) :
         IF out.err # NoErr
         THEN /\ ReturnErr(p, name, <<Lit("couldn't create tx: ")>> \o out.err)
              /\ UNCHANGED tx
         ELSE /\ Goto(p, name, "append")
              /\ tx' = [tx EXCEPT ![p] = out.tx]
    /\ UNCHANGED <<vmvars, entry, op, args, response, i, fnArgs, privateKey, slice, ncalls, succeeded, cvars>>

InvokeBuild(p, ids) ==
    /\ op[p] = "Invoke"
    /\ Build(p, "newInvokeTx",
             <<args[p].ContractID, args[p].Function, fnArgs[p], args[p].ByteArgs, privateKey[p]>>,
             ids)

\* a handler that signals the block builder before it has stored the pool
AppendReadSignals(p) ==
    /\ pc[p] = "append"
    /\ slice' = [slice EXCEPT ![p] = mempool]
    /\ notified' = notified + 1
    /\ pc' = [pc EXCEPT ![p] = "store"]
    /\ trace' = [trace EXCEPT ![p] = Append(@, "NotifyBlockReady")]
    /\ UNCHANGED <<mempool, db, entry, op, args, response, err, i, fnArgs, privateKey, tx, built,
                   ncalls, succeeded, cvars>>

\* s.vm.mempool = append(s.vm.mempool, tx): the read of s.vm.mempool ...
AppendRead(p) ==
    /\ pc[p] = "append"
    /\ slice' = [slice EXCEPT ![p] = mempool]
    /\ pc' = [pc EXCEPT ![p] = "store"]
    /\ UNCHANGED <<vmvars, entry, op, args, response, err, i, fnArgs, privateKey, tx, trace, built,
                   ncalls, succeeded, cvars>>

\* ... and the write of the appended slice back to s.vm.mempool
AppendWrite(p) ==
    /\ pc[p] = "store"
    /\ mempool' = Append(slice[p], tx[p])
    /\ Goto(p, "append", "notify")
    /\ UNCHANGED <<notified, db, entry, op, args, response, i, fnArgs, privateKey, tx, slice, built,
                   ncalls, succeeded, cvars>>

\* a handler that signals twice
NotifyTwice(p) ==
    /\ pc[p] = "notify"
    /\ notified' = notified + 2
    /\ Goto(p, "NotifyBlockReady", "respond")
    /\ UNCHANGED <<mempool, db, entry, op, args, response, i, fnArgs, privateKey, tx, slice, built,
                   ncalls, succeeded, cvars>>

\* a signal that waits until the previous one has been taken, with no taker
NotifyBlocks(p) ==
    /\ pc[p] = "notify"
    /\ notified = 0
    /\ notified' = notified + 1
    /\ Goto(p, "NotifyBlockReady", "respond")
    /\ UNCHANGED <<mempool, db, entry, op, args, response, i, fnArgs, privateKey, tx, slice, built,
                   ncalls, succeeded, cvars>>

\* s.vm.NotifyBlockReady()
Notify(p) ==
    /\ pc[p] = "notify"
    /\ notified' = notified + 1
    /\ Goto(p, "NotifyBlockReady", "respond")
    /\ UNCHANGED <<mempool, db, entry, op, args, response, i, fnArgs, privateKey, tx, slice, built,
                   ncalls, succeeded, cvars>>

\* response.TxID = tx.ID(); return nil
Respond(p) ==
    /\ pc[p] = "respond"
    /\ response' = [response EXCEPT ![p].TxID = tx[p].id]
    /\ succeeded' = succeeded + 1
    /\ ReturnErr(p, "respond", NoErr)
    /\ UNCHANGED <<vmvars, entry, op, args, i, fnArgs, privateKey, tx, slice, built, ncalls, cvars>>

InvokeAppendRead(p)  == op[p] = "Invoke" /\ AppendRead(p)
InvokeAppendWrite(p) == op[p] = "Invoke" /\ AppendWrite(p)
InvokeNotify(p)      == op[p] = "Invoke" /\ Notify(p)
InvokeRespond(p)     == op[p] = "Invoke" /\ Respond(p)

\* func (s *Service) CreateContract
CreateContractCall(p, a, r) == Enter(p, "CreateContract", a, r, "parseKey")
CreateContractParseKey(p) == op[p] = "CreateContract" /\ ParseKey(p, "build")
CreateContractBuild(p, ids) ==
    /\ op[p] = "CreateContract"
    /\ Build(p, "newCreateContractTx", <<args[p].Contract, privateKey[p]>>, ids)
CreateContractAppendRead(p)  == op[p] = "CreateContract" /\ AppendRead(p)
CreateContractAppendWrite(p) == op[p] = "CreateContract" /\ AppendWrite(p)
CreateContractNotify(p)      == op[p] = "CreateContract" /\ Notify(p)
CreateContractRespond(p)     == op[p] = "CreateContract" /\ Respond(p)

\* a GetTx that also answers from the pool
GetTxLooksInPool(p, a, r) ==
    /\ pc[p] = "idle"
    /\ ncalls < MaxCalls
    /\ ncalls' = ncalls + 1
    /\ op' = [op EXCEPT ![p] = "GetTx"]
    /\ args' = [args EXCEPT ![p] = a]
    /\ LET pending == {mempool[k].id : k \in 1..Len(mempool)}
           found == getTx(db \cup pending, a.ID)
       IN  IF found.err # NoErr
           THEN /\ response' = [response EXCEPT ![p] = r]
                /\ err' = [err EXCEPT ![p] =
                            <<Lit("couldn't find tx with ID "), Frag("", <<>>, FALSE, a.ID, <<>>)>>]
           ELSE /\ response' = [response EXCEPT ![p] = [r EXCEPT !.Tx = found.tx]]
                /\ err' = [err EXCEPT ![p] = NoErr]
    /\ pc' = [pc EXCEPT ![p] = "returned"]
    /\ trace' = [trace EXCEPT ![p] = <<"getTx">>]
    /\ entry' = [entry EXCEPT ![p] = mempool]
    /\ UNCHANGED <<vmvars, i, fnArgs, privateKey, tx, slice, built, succeeded, cvars>>

\* a GetTx that signals the block builder
GetTxSignals(p, a, r) ==
    /\ pc[p] = "idle"
    /\ ncalls < MaxCalls
    /\ ncalls' = ncalls + 1
    /\ op' = [op EXCEPT ![p] = "GetTx"]
    /\ args' = [args EXCEPT ![p] = a]
    /\ LET found == getTx(db, a.ID)
       IN  IF found.err # NoErr
           THEN /\ response' = [response EXCEPT ![p] = r]
                /\ err' = [err EXCEPT ![p] =
                            <<Lit("couldn't find tx with ID "), Frag("", <<>>, FALSE, a.ID, <<>>)>>]
           ELSE /\ response' = [response EXCEPT ![p] = [r EXCEPT !.Tx = found.tx]]
                /\ err' = [err EXCEPT ![p] = NoErr]
    /\ pc' = [pc EXCEPT ![p] = "returned"]
    /\ trace' = [trace EXCEPT ![p] = <<"getTx">>]
    /\ entry' = [entry EXCEPT ![p] = mempool]
    /\ notified' = notified + 1
    /\ UNCHANGED <<mempool, db, i, fnArgs, privateKey, tx, slice, built, succeeded, cvars>>

\* func (s *Service) GetTx, whole
GetTx(p, a, r) ==
    /\ pc[p] = "idle"
    /\ ncalls < MaxCalls
    /\ ncalls' = ncalls + 1
    /\ op' = [op EXCEPT ![p] = "GetTx"]
    /\ args' = [args EXCEPT ![p] = a]
    /\ LET found == getTx(db, a.ID)
       IN  IF found.err # NoErr
           THEN /\ response' = [response EXCEPT ![p] = r]
                /\ err' = [err EXCEPT ![p] =
                            <<Lit("couldn't find tx with ID "), Frag("", <<>>, FALSE, a.ID, <<>>)>>]
           ELSE /\ response' = [response EXCEPT ![p] = [r EXCEPT !.Tx = found.tx]]
                /\ err' = [err EXCEPT ![p] = NoErr]
    /\ pc' = [pc EXCEPT ![p] = "returned"]
    /\ trace' = [trace EXCEPT ![p] = <<"getTx">>]
    /\ entry' = [entry EXCEPT ![p] = mempool]
    /\ UNCHANGED <<vmvars, i, fnArgs, privateKey, tx, slice, built, succeeded, cvars>>

\* func (s *Service) CreateAccount, whole
CreateAccount(p, r) ==
    /\ pc[p] = "idle"
    /\ ncalls < MaxCalls
    /\ ncalls' = ncalls + 1
    /\ op' = [op EXCEPT ![p] = "CreateAccount"]
    /\ args' = [args EXCEPT ![p] = NoArgs]
    /\ \E k \in NewKeyOutcomes :
         IF k.err # NoErr
         THEN /\ response' = [response EXCEPT ![p] = r]
              /\ err' = [err EXCEPT ![p] = <<Lit("couldn't create new private key: ")>> \o k.err]
         ELSE /\ response' = [response EXCEPT ![p] = [r EXCEPT !.Key = k.key]]
              /\ err' = [err EXCEPT ![p] = NoErr]
    /\ pc' = [pc EXCEPT ![p] = "returned"]
    /\ trace' = [trace EXCEPT ![p] = <<"NewPrivateKey">>]
    /\ entry' = [entry EXCEPT ![p] = mempool]
    /\ UNCHANGED <<vmvars, i, fnArgs, privateKey, tx, slice, built, succeeded, cvars>>

\* the caller takes the result; its frame is gone
Finish(p) ==
    /\ pc[p] = "returned"
    /\ pc' = [pc EXCEPT ![p] = "idle"]
    /\ op' = [op EXCEPT ![p] = ""]
    /\ args' = [args EXCEPT ![p] = NoArgs]
    /\ response' = [response EXCEPT ![p] = ZeroResp]
    /\ err' = [err EXCEPT ![p] = NoErr]
    /\ i' = [i EXCEPT ![p] = 0]
    /\ fnArgs' = [fnArgs EXCEPT ![p] = <<>>]
    /\ privateKey' = [privateKey EXCEPT ![p] = ""]
    /\ tx' = [tx EXCEPT ![p] = NoTx]
    /\ slice' = [slice EXCEPT ![p] = <<>>]
    /\ trace' = [trace EXCEPT ![p] = <<>>]
    /\ built' = [built EXCEPT ![p] = NothingBuilt]
    /\ entry' = [entry EXCEPT ![p] = <<>>]
    /\ UNCHANGED <<vmvars, ncalls, succeeded, cvars>>

\* the steps a running handler can take
Step(p, ids) ==
    \/ InvokeValidate(p)
    \/ InvokeCoerce(p)
    \/ InvokeParseKey(p)
    \/ InvokeBuild(p, ids)
    \/ InvokeAppendRead(p)
    \/ InvokeAppendWrite(p)
    \/ InvokeNotify(p)
    \/ InvokeRespond(p)
    \/ CreateContractParseKey(p)
    \/ CreateContractBuild(p, ids)
    \/ CreateContractAppendRead(p)
    \/ CreateContractAppendWrite(p)
    \/ CreateContractNotify(p)
    \/ CreateContractRespond(p)
    \/ Finish(p)

(***************************************************************************)
(* Spec: NumProcs concurrent callers                                       *)
(***************************************************************************)
GoodArg == ArgAPI(int32Tag, I64(<<5, 0, 1, 0>>))
BadArg  == ArgAPI(int64Tag, Str("bad"))

ConcInvokeArgs ==
    { InvokeArgs(<<0, 1>>, "f", "key-1", <<GoodArg>>, ""),
      InvokeArgs(<<0, 1>>, "f", "key-1", <<BadArg>>, ""),
      InvokeArgs(<<0, 1>>, "f", "key-1", <<GoodArg, BadArg>>, "") }
ConcCreateContractArgs == {CreateContractArgs("wasm", k) : k \in KeyBytes}
GetTxRequests == {GetTxArgs(id) : id \in TxIDs}

NoCoerce == arg = ArgAPI(<<>>, NilValue) /\ ret = NotCalled

Init == ServiceInit /\ NoCoerce

Next ==
    \E p \in Procs :
        \/ \E a \in ConcInvokeArgs : InvokeCall(p, a, ZeroResp)
        \/ \E a \in ConcCreateContractArgs : CreateContractCall(p, a, ZeroResp)
        \/ GetTx(p, GetTxArgs(<<1, 1>>), ZeroResp)
        \/ CreateAccount(p, ZeroResp)
        \/ Step(p, {<<1, 1>>})

Spec == Init /\ [][Next]_vars

(***************************************************************************)
(* SpecSeq: one caller, one call after the other, over the wider requests  *)
(***************************************************************************)
\* a second convertible argument: the int32 -3, declared int64
WideArg == ArgAPI(int64Tag, I32(<<LimbBase - 3, LimbBase - 1>>))

SeqArgPool ==
    {GoodArg, WideArg,
     ArgAPI(<<"I","N","T","6","4">>, Str("bad")), ArgAPI(<<"s","t","r","i","n","g">>, Str("bad"))}

SeqCreateContractArgs == {CreateContractArgs(c, k) : c \in {"", "wasm"}, k \in KeyBytes}

\* the response object as the caller passes it in
GivenResponses == {ZeroResp, Resp(<<0, 1>>, <<EmptyID>>, "old")}

NextSeq ==
    \/ \E c \in ContractIDs, f \in Functions, k \in KeyBytes, r \in GivenResponses :
         \E a \in SeqsUpTo(SeqArgPool, MaxArgs) : InvokeCall(1, InvokeArgs(c, f, k, a, ""), r)
    \/ \E a \in SeqCreateContractArgs, r \in GivenResponses : CreateContractCall(1, a, r)
    \/ \E a \in GetTxRequests, r \in GivenResponses : GetTx(1, a, r)
    \/ \E r \in GivenResponses : CreateAccount(1, r)
    \/ Step(1, TxIDs)

SpecSeq == Init /\ [][NextSeq]_vars

(***************************************************************************)
(* Claims about the handlers                                               *)
(***************************************************************************)
Submissions == {"Invoke", "CreateContract"}
Quiet == \A p \in Procs : pc[p] \in {"idle", "returned"}
Returned(p) == pc[p] = "returned"
Rejected(p) == pc[p] = "returned" /\ err[p] # NoErr
Steps(p) == {trace[p][k] : k \in 1..Len(trace[p])}
Times(p, name) == Cardinality({k \in 1..Len(trace[p]) : trace[p][k] = name})
IsPrefix(s, t) == Len(s) <= Len(t) /\ SubSeq(t, 1, Len(s)) = s

\* the kinds of error, by the message's first fragment
ValidationError(e) == e # NoErr /\ e[1] = Lit("arguments failed validation: ")
ArgumentError(e)   == e # NoErr /\ e[1] = Lit("couldn't parse arg '")
KeyError(e) ==
    e # NoErr /\ e[1] = Lit("couldn't parse 'privateKey' to a SECP256K1R private key: ")
BuildError(e)      == e # NoErr /\ e[1] = Lit("couldn't create tx: ")

\* C1: once every call has returned, the pool holds one entry per Invoke /
\* CreateContract call that returned nil, and that call's transaction is in
\* it: no append is lost to another call's append.
C1_NoAppendLost ==
    Quiet =>
        /\ Len(mempool) = succeeded
        /\ \A p \in Procs :
             Returned(p) /\ op[p] \in Submissions /\ err[p] = NoErr
                => \E k \in 1..Len(mempool) : mempool[k] = tx[p]

\* C2: when Invoke or CreateContract returns an error, the pool is what it
\* was when the call started, and the call has appended nothing.
C2_RejectedCallLeavesPool ==
    \A p \in Procs :
        Rejected(p) /\ op[p] \in Submissions
            => mempool = entry[p] /\ "append" \notin Steps(p)

\* a call rejected by the builder, made when the pool was not empty
C2_Witness ==
    /\ Rejected(1)
    /\ op[1] = "Invoke"
    /\ BuildError(err[1])
    /\ Len(mempool) > 0
    /\ mempool = entry[1]

\* C3: NotifyBlockReady has been called once for every Invoke / CreateContract
\* call that returned nil, and once for every call that stands between the
\* signal and its return; a returned call has signalled once if it returned
\* nil and not at all if it returned an error.
C3_OneSignalPerSuccess ==
    /\ notified = succeeded + Cardinality({p \in Procs : pc[p] = "respond"})
    /\ \A p \in Procs :
         Returned(p) /\ op[p] \in Submissions
            => Times(p, "NotifyBlockReady") = IF err[p] = NoErr THEN 1 ELSE 0

\* two calls have returned, one with nil and one with an error, and one
\* signal has been given
C3_Witness ==
    /\ Quiet
    /\ \E p \in Procs : Returned(p) /\ op[p] \in Submissions /\ err[p] = NoErr
    /\ \E p \in Procs : Rejected(p) /\ op[p] \in Submissions
    /\ succeeded = 1
    /\ notified = 1

\* C4: the pool only grows at its end: in every step the pool before is a
\* prefix of the pool after.
C4_PoolOnlyAppends == [][IsPrefix(mempool, mempool')]_vars

\* C5: an Invoke request whose contractID is ids.Empty or whose function is
\* empty takes the validate step and nothing else: it returns the validation
\* error whatever its args and key are, converts no argument, parses no key
\* and builds nothing.
BadShape(a) == a.ContractID = EmptyID \/ a.Function = ""

C5_ValidationFirst ==
    \A p \in Procs :
        op[p] = "Invoke" /\ BadShape(args[p]) =>
            /\ IsPrefix(trace[p], <<"validate">>)
            /\ built[p] = NothingBuilt
            /\ fnArgs[p] = <<>>
            /\ privateKey[p] = ""
            /\ Returned(p) => ValidationError(err[p])

\* a request with an empty function, an argument that cannot be converted
\* and a malformed key has been rejected
C5_Witness ==
    /\ Rejected(1)
    /\ op[1] = "Invoke"
    /\ args[1].Function = ""
    /\ args[1].ContractID # EmptyID
    /\ args[1].PrivateKey = "malformed"
    /\ Len(args[1].Args) = 2
    /\ \A r \in toFnArg(args[1].Args[1]) : r.err # NoErr

\* toFnArg fails on a
Fails(a) == \A r \in toFnArg(a) : r.err # NoErr

\* C6, the order: a call rejected by a conversion stopped at the lowest
\* index whose conversion fails, having converted the arguments before it
\* and none after it, and its error names that argument's declared type.
C6_FailFastInOrder ==
    \A p \in Procs :
        Rejected(p) /\ op[p] = "Invoke" /\ ArgumentError(err[p]) =>
            LET a == args[p].Args
            IN  /\ i[p] + 1 \in 1..Len(a)
                /\ Fails(a[i[p] + 1])
                /\ \A k \in 1..i[p] : ~Fails(a[k]) /\ fnArgs[p][k] # NilValue
                /\ \A k \in (i[p] + 1)..Len(a) : fnArgs[p][k] = NilValue
                /\ Times(p, "toFnArg") = i[p] + 1
                /\ err[p][3] = Runes(a[i[p] + 1].Type)

\* C6, the position: the error of a call rejected by a conversion tells at
\* which index it stopped: two such calls with the same error stopped at the
\* same index.
C6_ErrorIdentifiesPosition ==
    /\ C6_FailFastInOrder
    /\ \A p, q \in Procs :
        /\ Rejected(p) /\ op[p] = "Invoke" /\ ArgumentError(err[p])
        /\ Rejected(q) /\ op[q] = "Invoke" /\ ArgumentError(err[q])
        /\ err[p] = err[q]
        => i[p] = i[q]

\* C7: an Invoke call takes its steps in the order validate, toFnArg for each
\* argument, ToPrivateKey, newInvokeTx, append, NotifyBlockReady, respond,
\* and stops at the first that fails: the error it returns is the one of the
\* earliest failing step, and the builder is reached only after validation,
\* every conversion and the key parsing have succeeded.
InvokeSteps(a) ==
    <<"validate">> \o [k \in 1..Len(a.Args) |-> "toFnArg"]
        \o <<"ToPrivateKey", "newInvokeTx", "append", "NotifyBlockReady", "respond">>

\* the step label a call stands at, for the steps taken so far
StandsAt(p) ==
    CASE pc[p] = "validate" -> Len(trace[p]) = 0
      [] pc[p] = "coerce"   -> Len(trace[p]) \in 1..Len(args[p].Args)
      [] pc[p] = "parseKey" -> Len(trace[p]) = 1 + Len(args[p].Args)
      [] pc[p] = "build"    -> Len(trace[p]) = 2 + Len(args[p].Args)
      [] pc[p] \in {"append", "store"} -> Len(trace[p]) = 3 + Len(args[p].Args)
      [] pc[p] = "notify"   -> Len(trace[p]) = 4 + Len(args[p].Args)
      [] pc[p] = "respond"  -> Len(trace[p]) = 5 + Len(args[p].Args)
      [] OTHER -> TRUE

C7_EarliestFailingStepDecides ==
    \A p \in Procs :
        op[p] = "Invoke" =>
            LET a == args[p]
            IN  /\ IsPrefix(trace[p], InvokeSteps(a))
                /\ StandsAt(p)
                /\ built[p] # NothingBuilt =>
                     /\ ~BadShape(a)
                     /\ \A k \in 1..Len(a.Args) : ~Fails(a.Args[k])
                     /\ a.PrivateKey \in WellFormedKeys
                /\ Returned(p) =>
                     IF BadShape(a) THEN ValidationError(err[p])
                     ELSE IF \E k \in 1..Len(a.Args) : Fails(a.Args[k])
                          THEN ArgumentError(err[p])
                     ELSE IF a.PrivateKey \notin WellFormedKeys THEN KeyError(err[p])
                     ELSE \/ BuildError(err[p])
                          \/ err[p] = NoErr /\ trace[p] = InvokeSteps(a)

\* a well-shaped request with an argument that cannot be converted and a
\* malformed key has been rejected
C7_Witness ==
    /\ Rejected(1)
    /\ op[1] = "Invoke"
    /\ ~BadShape(args[1])
    /\ args[1].PrivateKey = "malformed"
    /\ \E k \in 1..Len(args[1].Args) : Fails(args[1].Args[k])
    /\ ArgumentError(err[1])

\* C12: a CreateContract call takes the steps ToPrivateKey,
\* newCreateContractTx, append, NotifyBlockReady, respond in that order, with
\* no validation and no conversion step; the builder is reached only with a
\* parsed key and gets (args.Contract, privateKey); a returned call has the
\* key error if the key is malformed (whatever the contract bytes), else the
\* builder's error if the builder failed, else nil after all five steps.
CreateContractSteps ==
    <<"ToPrivateKey", "newCreateContractTx", "append", "NotifyBlockReady", "respond">>

C12_CreateContractKeyThenBuild ==
    \A p \in Procs :
        op[p] = "CreateContract" =>
            /\ IsPrefix(trace[p], CreateContractSteps)
            /\ fnArgs[p] = <<>>
            /\ built[p] # NothingBuilt =>
                 /\ args[p].PrivateKey \in WellFormedKeys
                 /\ built[p] = <<args[p].Contract, privateKey[p]>>
            /\ Returned(p) =>
                 /\ err[p] = NoErr \/ KeyError(err[p]) \/ BuildError(err[p])
                 /\ IF args[p].PrivateKey \notin WellFormedKeys
                    THEN KeyError(err[p]) /\ built[p] = NothingBuilt
                    ELSE IF tx[p] = NoTx
                    THEN BuildError(err[p]) /\ built[p] # NothingBuilt
                    ELSE err[p] = NoErr /\ trace[p] = CreateContractSteps

\* a CreateContract call with empty contract bytes and a malformed key has
\* been rejected
C12_Witness ==
    /\ Rejected(1)
    /\ op[1] = "CreateContract"
    /\ args[1].Contract = ""
    /\ args[1].PrivateKey = "malformed"
    /\ KeyError(err[1])

\* C13: a step in which a GetTx or CreateAccount call runs, whatever its
\* input and whether it returns nil or an error, leaves the pool and the
\* count of block-ready signals as they were, and a GetTx leaves the store
\* as it was.
Lookups == {"GetTx", "CreateAccount"}

C13_LookupsLeaveSubmissionState ==
    [][\A p \in Procs :
          pc[p] = "idle" /\ op'[p] \in Lookups =>
              /\ mempool' = mempool
              /\ notified' = notified
              /\ op'[p] = "GetTx" => db' = db]_vars

\* a GetTx has returned after a submission was admitted and signalled, and
\* the pool and the signal count are what that submission left
C13_Witness ==
    /\ Returned(1)
    /\ op[1] = "GetTx"
    /\ err[1] = NoErr
    /\ Len(mempool) = 1
    /\ mempool = entry[1]
    /\ notified = 1

\* C14: a returned GetTx call has answered from the store alone: if the
\* store holds the identifier, nil and response.Tx set to the stored record;
\* if not, "couldn't find tx with ID <id>" and the response object as it was
\* passed in, also when a transaction with that identifier is in the pool.
NotFoundError(id) ==
    <<Lit("couldn't find tx with ID "), Frag("", <<>>, FALSE, id, <<>>)>>

C14_GetTxAnswersFromStore ==
    \A p \in Procs :
        Returned(p) /\ op[p] = "GetTx" =>
            IF args[p].ID \in db
            THEN /\ err[p] = NoErr
                 /\ \E g \in GivenResponses : response[p] = [g EXCEPT !.Tx = <<args[p].ID>>]
            ELSE /\ err[p] = NotFoundError(args[p].ID)
                 /\ response[p] \in GivenResponses

\* GetTx has missed an identifier that is in the pool and not in the store,
\* and the response object still holds what the caller put in it
C14_Witness ==
    /\ Returned(1)
    /\ op[1] = "GetTx"
    /\ args[1].ID \notin db
    /\ \E k \in 1..Len(mempool) : mempool[k].id = args[1].ID
    /\ err[1] = NotFoundError(args[1].ID)
    /\ response[1] = Resp(<<0, 1>>, <<EmptyID>>, "old")

\* C15: within one Invoke or CreateContract call the key parser, the
\* builder, the append and the block-ready signal each run at most once, and
\* a call that has returned (with an error or with nil) takes no further
\* step: until its caller takes the result, its steps, its error and its
\* response stay as they are.
OnceSteps ==
    {"ToPrivateKey", "newInvokeTx", "newCreateContractTx", "append", "NotifyBlockReady"}

C15_NoStepRetried ==
    [][\A p \in Procs :
          /\ op'[p] \in Submissions => \A name \in OnceSteps : Times(p, name)' <= 1
          /\ pc[p] = "returned" =>
                \/ pc'[p] = "idle"
                \/ /\ pc'[p] = "returned"
                   /\ trace'[p] = trace[p]
                   /\ err'[p] = err[p]
                   /\ response'[p] = response[p]]_vars

\* one call has been rejected by the builder and another admitted, each
\* having parsed its key once and called the builder once
C15_Witness ==
    \E p, q \in Procs :
        /\ Rejected(p) /\ op[p] \in Submissions /\ BuildError(err[p])
        /\ Times(p, "ToPrivateKey") = 1
        /\ Cardinality({k \in 1..Len(trace[p]) : trace[p][k] \in {"newInvokeTx", "newCreateContractTx"}}) = 1
        /\ Returned(q) /\ op[q] \in Submissions /\ err[q] = NoErr
        /\ \A name \in OnceSteps \ {"newInvokeTx", "newCreateContractTx"} : Times(q, name) = 1

(***************************************************************************)
(* SpecFair: concurrent callers, every goroutine scheduled again and again *)
(***************************************************************************)
\* callers with an odd number call Invoke and GetTx, the others
\* CreateContract and CreateAccount
NextFair ==
    \E p \in Procs :
        \/ p % 2 = 1 /\ InvokeCall(p, InvokeArgs(<<0, 1>>, "f", "key-1", <<GoodArg>>, ""), ZeroResp)
        \/ p % 2 = 0 /\ CreateContractCall(p, CreateContractArgs("wasm", "key-1"), ZeroResp)
        \/ p % 2 = 1 /\ GetTx(p, GetTxArgs(<<1, 1>>), ZeroResp)
        \/ p % 2 = 0 /\ CreateAccount(p, ZeroResp)
        \/ Step(p, {<<1, 1>>})

SpecFair == Init /\ [][NextFair]_vars /\ \A p \in Procs : WF_vars(Step(p, {<<1, 1>>}))

\* C16: a running handler never waits: whatever the other callers do, its
\* next step can be taken; and with every goroutine scheduled again and
\* again, every call that has started returns, with nil or with an error.
Running(p) == pc[p] \notin {"idle", "returned"}

C16_NoCallWaits ==
    /\ [](\A p \in Procs : Running(p) => ENABLED Step(p, {<<1, 1>>}))
    /\ \A p \in Procs : Running(p) ~> Returned(p)

\* an Invoke and a CreateContract that ran at the same time, each having
\* read the pool before the other wrote it, have both returned
C16_Witness ==
    /\ Returned(1) /\ op[1] = "Invoke"
    /\ Returned(2) /\ op[2] = "CreateContract"
    /\ slice[1] = <<>> /\ slice[2] = <<>>
    /\ "append" \in Steps(1) /\ "append" \in Steps(2)

\* C17: a call signals NotifyBlockReady only after it has itself written
\* the pool; so whenever a signal has been given the pool is not empty, and
\* the signals given so far are never more than the writes of the pool made
\* so far (those of the calls that returned nil and of the running calls
\* that are past their append).
PoolWrites ==
    succeeded + Cardinality({p \in Procs : Running(p) /\ "append" \in Steps(p)})

\* step a occurs in the steps of caller p, and before every occurrence of b
Before(p, a, b) ==
    \A k \in 1..Len(trace[p]) :
        trace[p][k] = b => \E j \in 1..(k - 1) : trace[p][j] = a

C17_AdmissionPrecedesNotification ==
    /\ \A p \in Procs : Before(p, "append", "NotifyBlockReady")
    /\ notified > 0 => Len(mempool) > 0
    /\ notified <= PoolWrites

\* one call has written the pool and signalled; another has written the
\* pool and not signalled yet
C17_Witness ==
    \E p, q \in Procs :
        /\ pc[p] = "respond"
        /\ pc[q] = "notify"
        /\ notified = 1
        /\ PoolWrites = 2

\* C18: between its entry and the moment the caller takes the result, a
\* call changes its response object in one step only, the last one of a
\* successful call, after its append and its signal, and what it writes is
\* the identifier of the transaction it built; so a rejected call returns
\* with the response as it was passed in, and it has given no signal.
C18_RejectedCallLeavesResponse ==
    [][\A p \in Procs :
          /\ (pc[p] # "idle" /\ pc'[p] # "idle" /\ op[p] \in Submissions
                /\ response'[p] # response[p]) =>
                /\ pc[p] = "respond"
                /\ pc'[p] = "returned"
                /\ err'[p] = NoErr
                /\ Before(p, "append", "NotifyBlockReady")
                /\ Times(p, "NotifyBlockReady") = 1
                /\ tx[p] # NoTx
                /\ response'[p] = [response[p] EXCEPT !.TxID = tx[p].id]
          /\ (pc'[p] = "returned" /\ op'[p] \in Submissions /\ err'[p] # NoErr) =>
                /\ Times(p, "NotifyBlockReady")' = 0
                /\ pc[p] # "returned" => notified' = notified /\ response'[p] = response[p]]_vars

\* a call given a response object that already held an identifier has been
\* rejected for its key, and the object still holds that identifier
C18_Witness ==
    /\ Rejected(1)
    /\ op[1] \in Submissions
    /\ KeyError(err[1])
    /\ response[1] = Resp(<<0, 1>>, <<EmptyID>>, "old")

\* C19: what Invoke hands to newInvokeTx is (args.ContractID, args.Function,
\* fnArgs, args.ByteArgs, privateKey), where fnArgs is as long as args.Args
\* and its k-th element is what toFnArg returns for the k-th argument; a
\* well-shaped request with no arguments and a well-formed key reaches the
\* builder with the empty list.
C19_BuilderGetsCoercedArgs ==
    \A p \in Procs :
        op[p] = "Invoke" =>
            LET a == args[p]
            IN  /\ built[p] # NothingBuilt =>
                     /\ built[p] = <<a.ContractID, a.Function, fnArgs[p], a.ByteArgs, privateKey[p]>>
                     /\ Len(built[p][3]) = Len(a.Args)
                     /\ \A k \in 1..Len(a.Args) :
                          Returns(built[p][3][k], NoErr) \in toFnArg(a.Args[k])
                     /\ built[p][5] = ToPrivateKey(a.PrivateKey).key
                /\ (Returned(p) /\ a.Args = <<>> /\ ~BadShape(a)
                        /\ a.PrivateKey \in WellFormedKeys) =>
                     /\ trace[p][1] = "validate" /\ trace[p][2] = "ToPrivateKey"
                     /\ trace[p][3] = "newInvokeTx"
                     /\ built[p] # NothingBuilt
                     /\ built[p][3] = <<>>

\* the builder has been given the int32 5 and the int64 -3, in the order of
\* the request's arguments
C19_Witness ==
    /\ op[1] = "Invoke"
    /\ args[1].Args = <<GoodArg, WideArg>>
    /\ built[1] # NothingBuilt
    /\ built[1][3] = <<I32(<<5, 0>>), I64(<<LimbBase - 3, LimbBase - 1, LimbBase - 1, LimbBase - 1>>)>>

(***************************************************************************)
(* SpecCoerce: toFnArg applied to every sampled (type, value) pair         *)
(***************************************************************************)
InitCoerce ==
    /\ ServiceInit
    /\ \E t \in TypeTags, v \in WireValues : arg = ArgAPI(t, v)
    /\ ret = NotCalled

CallToFnArg ==
    /\ ret = NotCalled
    /\ ret' \in toFnArg(arg)
    /\ UNCHANGED <<arg, svars>>

NextCoerce == CallToFnArg

SpecCoerce == InitCoerce /\ [][NextCoerce]_vars

(***************************************************************************)
(* Claims about toFnArg (checked under SpecCoerce)                         *)
(***************************************************************************)
Called == ret # NotCalled

\* two runes are the same letter in either case
SameLetter(a, b) ==
    \/ a = b
    \/ \E k \in DOMAIN UpperRunes : {a, b} = {UpperRunes[k], LowerRunes[k]}

\* s and t are equal when letter case is ignored
EqualFold(s, t) ==
    /\ Len(s) = Len(t)
    /\ \A k \in 1..Len(s) : SameLetter(s[k], t[k])

Declared32 == EqualFold(arg.Type, int32Tag)
Declared64 == EqualFold(arg.Type, int64Tag)

\* C8: toFnArg fails with "arg type must be one of: int32, int64" exactly
\* when the type, letter case ignored, is neither int32 nor int64, whatever
\* the value is; and a type that differs from int32 / int64 only in letter
\* case gets a result the lower-case spelling gets for the same value.
C8_UnsupportedTypeIffNotInt32NorInt64 ==
    Called =>
        /\ (ret.err = unsupportedType) <=> ~(Declared32 \/ Declared64)
        /\ Declared32 => ret \in toFnArg(ArgAPI(int32Tag, arg.Value))
        /\ Declared64 => ret \in toFnArg(ArgAPI(int64Tag, arg.Value))

C8_Witness ==
    /\ Called
    /\ arg.Type = <<"I","n","T","6","4">>
    /\ arg.Value.kind = "int32"
    /\ ret.err = NoErr

NumericKinds == {"int32", "int64", "float32", "float64"}

\* C9: for a supported type, a value that is no int32, int64, float32 or
\* float64 gets the not-convertible error, which holds the value's text, and
\* no result; a value of one of the four numeric kinds gets no error and a
\* result of the declared integer type.
C9_NotConvertibleIffNotNumeric ==
    Called /\ (Declared32 \/ Declared64) =>
        LET target == IF Declared32 THEN "int32" ELSE "int64"
        IN  IF arg.Value.kind \in NumericKinds
            THEN ret.err = NoErr /\ ret.val.kind = target
            ELSE /\ ret.val = NilValue
                 /\ ret.err # unsupportedType
                 /\ Len(ret.err) = 3
                 /\ ret.err[1] = Lit("value '")
                 /\ ret.err[2] = FormatV(arg.Value)
                 /\ ret.err[3] = Lit(IF Declared32 THEN "' is not convertible to int32"
                                                  ELSE "' is not convertible to int64")

C9_Witness ==
    /\ Called
    /\ Declared64
    /\ arg.Value = Str("bad")
    /\ ret.err[2] = Lit("bad")

\* unsigned limb sequences of equal length: a < b, a + b, a - b (for a >= b)
RECURSIVE LimbsLess(_, _)
LimbsLess(a, b) ==
    IF a = <<>> THEN FALSE
    ELSE LET n == Len(a)
         IN  \/ a[n] < b[n]
             \/ a[n] = b[n] /\ LimbsLess(SubSeq(a, 1, n - 1), SubSeq(b, 1, n - 1))

RECURSIVE LimbsAdd(_, _, _)
LimbsAdd(a, b, carry) ==
    IF a = <<>> THEN <<>>
    ELSE LET t == Head(a) + Head(b) + carry
         IN  <<t % LimbBase>> \o LimbsAdd(Tail(a), Tail(b), t \div LimbBase)

RECURSIVE LimbsSub(_, _, _)
LimbsSub(a, b, borrow) ==
    IF a = <<>> THEN <<>>
    ELSE LET t == Head(a) - Head(b) - borrow
         IN  IF t < 0 THEN <<t + LimbBase>> \o LimbsSub(Tail(a), Tail(b), 1)
             ELSE <<t>> \o LimbsSub(Tail(a), Tail(b), 0)

\* |x - y| for two signed integers given by their bit patterns
AbsDifference(x, y) ==
    LET mx == IntMag(x)
        my == IntMag(y)
    IN  IF IsNegative(x) # IsNegative(y) THEN LimbsAdd(mx, my, 0)
        ELSE IF LimbsLess(mx, my) THEN LimbsSub(my, mx, 0)
        ELSE LimbsSub(mx, my, 0)

\* x and y denote the same number
SameNumber(x, y) == AbsDifference(x, y) = Zeros(MagLimbs)

\* x - y is a multiple of 2^32
CongruentMod2To32(x, y) ==
    LET d == AbsDifference(x, y) IN d[1] = 0 /\ d[2] = 0

\* -2^31 <= x < 2^31
TwoTo31 == <<0, SignLimb>> \o Zeros(MagLimbs - 2)
InInt32Range(x) ==
    IF IsNegative(x) THEN ~LimbsLess(TwoTo31, IntMag(x))
    ELSE LimbsLess(IntMag(x), TwoTo31)

\* C10: among integers the conversion never fails and does no range check:
\* to int32, an int64 v gives the int32 congruent to v modulo 2^32 (v itself
\* when -2^31 <= v < 2^31); to int64, an int32 gives the same number; and an
\* integer converted to its own type is returned unchanged.
C10_IntegerNarrowingWraps ==
    Called /\ arg.Value.kind \in {"int32", "int64"} /\ (Declared32 \/ Declared64) =>
        /\ ret.err = NoErr
        /\ Len(ret.val.bits) = IF Declared32 THEN 2 ELSE 4
        /\ CongruentMod2To32(ret.val.bits, arg.Value.bits)
        /\ (Declared64 \/ InInt32Range(arg.Value.bits))
                => SameNumber(ret.val.bits, arg.Value.bits)
        /\ ret.val.kind = arg.Value.kind => ret.val = arg.Value

\* an int64 outside the int32 range has been converted to int32
C10_Witness ==
    /\ Called
    /\ Declared32
    /\ arg.Value.kind = "int64"
    /\ ~InInt32Range(arg.Value.bits)
    /\ ret.err = NoErr
    /\ ~SameNumber(ret.val.bits, arg.Value.bits)

\* the bits of an unsigned magnitude, least significant first
Bits(l) == [b \in 1..(16 * Len(l)) |-> (l[((b - 1) \div 16) + 1] \div 2^((b - 1) % 16)) % 2]

\* the bits of x * 2^e, in the width of x
Doubled(x, e) == [b \in DOMAIN x |-> IF b > e THEN x[b - e] ELSE 0]

\* x < y and x <= y for bit sequences of one width: the highest bit that differs decides
BitsLess(x, y) ==
    \E b \in DOMAIN x : x[b] < y[b] /\ \A j \in DOMAIN x : j > b => x[j] = y[j]
BitsAtMost(x, y) == x = y \/ BitsLess(x, y)

\* a natural number below LimbBase^2 as an unsigned magnitude
Mag(m) == <<m % LimbBase, m \div LimbBase>> \o Zeros(MagLimbs - 2)

\* |f| lies between r and r + 1 (r inclusive), for a finite float f and an
\* unsigned magnitude r: with f = mant * 2^exp, r * 2^k <= mant * 2^e < (r + 1) * 2^k
\* where k = -exp, e = 0 for a negative exp and k = 0, e = exp otherwise
IsIntegerPartOf(r, f) ==
    LET k == IF f.exp < 0 THEN 0 - f.exp ELSE 0
        e == IF f.exp < 0 THEN 0 ELSE f.exp
        m == Doubled(Bits(Mag(f.mant)), e)
    IN  /\ BitsAtMost(Doubled(Bits(r), k), m)
        /\ BitsLess(m, Doubled(Bits(LimbsAdd(r, Mag(1), 0)), k))

\* the integer part of f is a value of the signed integer type of n limbs:
\* |f| < 2^(16n-1) + 1 for a negative f, |f| < 2^(16n-1) otherwise
InRangeOf(f, n) ==
    LET top == Zeros(n - 1) \o <<SignLimb>> \o Zeros(MagLimbs - n)
        k == IF f.exp < 0 THEN 0 - f.exp ELSE 0
        e == IF f.exp < 0 THEN 0 ELSE f.exp
        m == Doubled(Bits(Mag(f.mant)), e)
    IN  /\ IsFinite(f)
        /\ BitsLess(m, Doubled(Bits(IF f.neg THEN LimbsAdd(top, Mag(1), 0) ELSE top), k))

\* C11: a finite float32 / float64 whose integer part is a value of the
\* declared type is converted to that integer part: the fraction is dropped,
\* toward zero for either sign (3.875 gives 3 and -3.875 gives -3), never
\* rounded to the nearest integer.
C11_FloatTruncatesTowardZero ==
    LET f == arg.Value
        n == IF Declared32 THEN 2 ELSE 4
    IN  Called /\ IsFloat(f) /\ (Declared32 \/ Declared64) /\ InRangeOf(f, n) =>
            /\ ret.err = NoErr
            /\ ret.val.kind = (IF Declared32 THEN "int32" ELSE "int64")
            /\ Len(ret.val.bits) = n
            /\ IsIntegerPartOf(IntMag(ret.val.bits), f)
            /\ IsNegative(ret.val.bits) => f.neg

\* -3.875 as a float64 has been converted to the int32 -3
C11_Witness ==
    /\ Called
    /\ Declared32
    /\ arg.Value = F64(TRUE, 31, -3)
    /\ ret.val = I32(<<LimbBase - 3, LimbBase - 1>>)

====
